---- MODULE Spec2Model ----
(***************************************************************************)
(* PikPix: a command-line image converter (Node.js, sharp, commander).     *)
(*                                                                         *)
(* Two revisions of the program are in the repository.  The later one      *)
(* (progress bar, lossless, ROI; processDirectory awaits each item) is     *)
(* specified by Spec.  The earlier one, index.js, whose processDirectory   *)
(* starts every item from a forEach without awaiting, is specified by      *)
(* SpecIndex.  Both share the state below.                                 *)
(*                                                                         *)
(* Flag values are sequences of one-character strings, so that split,      *)
(* Number, parseInt and parseFloat are computed as JavaScript computes     *)
(* them.  File names are strings built with \o, so that "a_1" + ".png"     *)
(* and "a" + "_1" + ".png" are the same path.                              *)
(***************************************************************************)
EXTENDS Integers, Sequences, FiniteSets, TLC

VARIABLES
    options,     \* program.opts(): the raw flags
    env,         \* the world the run meets: input path kind, payloads, directory entries
    dirs,        \* directories that exist
    mkdirs,      \* directories this run created with mkdirSync
    outFiles,    \* files under the output directory: path -> who wrote it ("pre" or the item)
    pc,          \* position of the module body / run()
    exitCode,    \* -1 while running; the process exit code afterwards
    files,       \* processDirectory: the readdir result
    idx,         \* processDirectory: how many entries the loop has started
    cur,         \* the item whose synchronous code is on the stack (0: none)
    ipc,         \* per item: position inside processImage
    inputFile,   \* per item: processImage's inputFile argument
    outputFile,  \* per item: processImage's outputFile argument
    applied,     \* per item: the calls made on the sharp pipeline, in order
    stdout,      \* console.log lines
    stderr,      \* console.error and console.warn lines
    bar,         \* the progress bar: total and ticks
    requests     \* the HTTP GET requests made (axios.get), in order

vars == <<options, env, dirs, mkdirs, outFiles, pc, exitCode, files, idx, cur,
          ipc, inputFile, outputFile, applied, stdout, stderr, bar, requests>>

---------------------------------------------------------------------------
(* Bounds of the model *)

\* longest --resize string
MaxResizeLen == 5
\* longest --compression string
MaxCompressionLen == 3
\* longest --blur string
MaxBlurLen == 3
\* most entries of the input directory
MaxEntries == 2
\* pre-existing output files are among base.ext, base_1.ext .. base_MaxCounter.ext
MaxCounter == 2

\* an option that was not given (a string-valued one)
Absent == "<undefined>"

---------------------------------------------------------------------------
(* JavaScript numbers: undefined, NaN, or m / 10^e with m an integer *)

Undefined == [kind |-> "undefined", m |-> 0, e |-> 0]
NaN == [kind |-> "nan", m |-> 0, e |-> 0]
Num(m, e) == [kind |-> "num", m |-> m, e |-> e]

RECURSIVE Pow10(_)
Pow10(e) == IF e = 0 THEN 1 ELSE 10 * Pow10(e - 1)

\* isNaN(v): Number(undefined) is NaN
isNaN(v) == v.kind # "num"
\* v < k, v > k, v <= k for an integer k; a comparison with NaN or undefined is false
Less(v, k) == v.kind = "num" /\ v.m < k * Pow10(v.e)
Greater(v, k) == v.kind = "num" /\ v.m > k * Pow10(v.e)
LessEq(v, k) == v.kind = "num" /\ v.m <= k * Pow10(v.e)
IsInteger(v) == v.kind = "num" /\ v.m % Pow10(v.e) = 0
\* ToBoolean of a number or undefined: false for undefined, NaN, +0 and -0
Truthy(v) == v.kind = "num" /\ v.m # 0
\* 10 * v >= k and 10 * v <= k, for bounds given in tenths
TenthsAtLeast(v, k) == v.kind = "num" /\ v.m * 10 >= k * Pow10(v.e)
TenthsAtMost(v, k) == v.kind = "num" /\ v.m * 10 <= k * Pow10(v.e)

Digits == {"0", "1", "2", "3", "4", "5", "6", "7", "8", "9"}
DigitVal(c) ==
    CASE c = "0" -> 0 [] c = "1" -> 1 [] c = "2" -> 2 [] c = "3" -> 3 [] c = "4" -> 4
      [] c = "5" -> 5 [] c = "6" -> 6 [] c = "7" -> 7 [] c = "8" -> 8 [] c = "9" -> 9

RECURSIVE DigitsValue(_)
DigitsValue(s) ==
    IF s = <<>> THEN 0
    ELSE 10 * DigitsValue(SubSeq(s, 1, Len(s) - 1)) + DigitVal(s[Len(s)])

IsDigit(c) == c \in Digits
Signed(s) == s # <<>> /\ s[1] \in {"-", "+"}
Unsigned(s) == IF Signed(s) THEN Tail(s) ELSE s
SignOf(s) == IF Signed(s) /\ s[1] = "-" THEN -1 ELSE 1

\* a decimal literal: digits, at most one ".", at least one digit
DecimalValue(sign, body) ==
    LET dots == {i \in DOMAIN body : body[i] = "."}
        digs == SelectSeq(body, IsDigit)
    IN  Num(sign * DigitsValue(digs),
            IF dots = {} THEN 0 ELSE Len(body) - (CHOOSE i \in dots : TRUE))
IsDecimal(body) ==
    /\ \A i \in DOMAIN body : body[i] \in Digits \cup {"."}
    /\ Cardinality({i \in DOMAIN body : body[i] = "."}) <= 1
    /\ \E i \in DOMAIN body : body[i] \in Digits

\* Number(string): the empty string is 0, a decimal literal its value, anything else NaN
Number(s) ==
    IF s = <<>> THEN Num(0, 0)
    ELSE IF IsDecimal(Unsigned(s)) THEN DecimalValue(SignOf(s), Unsigned(s))
    ELSE NaN

\* the longest prefix of s made of digits
RECURSIVE DigitPrefix(_)
DigitPrefix(s) ==
    IF s = <<>> \/ s[1] \notin Digits THEN <<>> ELSE <<s[1]>> \o DigitPrefix(Tail(s))

\* parseInt(string): sign, then the longest run of digits; NaN when there is none
parseInt(s) ==
    LET d == DigitPrefix(Unsigned(s))
    IN  IF d = <<>> THEN NaN ELSE Num(SignOf(s) * DigitsValue(d), 0)

\* the longest prefix of s that is digits with at most one "."
RECURSIVE FloatPrefix(_, _)
FloatPrefix(s, dotSeen) ==
    IF s = <<>> THEN <<>>
    ELSE IF s[1] \in Digits THEN <<s[1]>> \o FloatPrefix(Tail(s), dotSeen)
    ELSE IF s[1] = "." /\ ~dotSeen THEN <<s[1]>> \o FloatPrefix(Tail(s), TRUE)
    ELSE <<>>

\* parseFloat(string): sign, then the longest decimal prefix; NaN when it has no digit
parseFloat(s) ==
    LET p == FloatPrefix(Unsigned(s), FALSE)
    IN  IF IsDecimal(p) THEN DecimalValue(SignOf(s), p) ELSE NaN

\* string.split(/[xX]/): the pieces between the separators, empty pieces kept
RECURSIVE Split(_)
Split(s) ==
    IF \A i \in DOMAIN s : s[i] \notin {"x", "X"} THEN <<s>>
    ELSE LET k == CHOOSE i \in DOMAIN s :
                     /\ s[i] \in {"x", "X"}
                     /\ \A j \in 1..(i - 1) : s[j] \notin {"x", "X"}
         IN  <<SubSeq(s, 1, k - 1)>> \o Split(SubSeq(s, k + 1, Len(s)))

\* all strings over an alphabet, up to a length
RECURSIVE StringsUpTo(_, _)
StringsUpTo(alphabet, n) ==
    IF n = 0 THEN {<<>>}
    ELSE LET shorter == StringsUpTo(alphabet, n - 1)
         IN  shorter \cup {Append(s, c) : s \in shorter, c \in alphabet}

---------------------------------------------------------------------------
(* The flags and the values the module body derives from them *)

\* a flag whose argument goes through a parser: not given, or given with a string
NotGiven == [given |-> FALSE, s |-> <<>>]
Given(s) == [given |-> TRUE, s |-> s]

\* String.prototype.toLowerCase over the format names the model draws
toLowerCase(f) ==
    CASE f = "PNG" -> "png" [] f = "JPG" -> "jpg" [] f = "Jpeg" -> "jpeg" [] OTHER -> f

inputPath == options.input
\* path.resolve(options.output); paths of the model are relative to the working directory
outputPath == options.output
\* let format = options.format.toLowerCase(); if (format === "jpg") format = "jpeg"
CanonicalFormat(f) ==
    LET lowered == toLowerCase(f)
    IN  IF lowered = "jpg" THEN "jpeg" ELSE lowered
format == CanonicalFormat(options.format)
\* commander applies parseInt to the argument of --compression
compression ==
    IF options.compression.given THEN parseInt(options.compression.s) ELSE Undefined
subsample == options.subsample
\* options.resize ? options.resize.split(/[xX]/).map(Number) : null
\* (the empty string is falsy); at(k) is resize[k-1] of the source, undefined past the end
resize ==
    IF options.resize.given /\ options.resize.s # <<>>
    THEN LET parts == Split(options.resize.s)
         IN  [null |-> FALSE, v |-> [k \in DOMAIN parts |-> Number(parts[k])]]
    ELSE [null |-> TRUE, v |-> <<>>]
At(arr, k) == IF k \in DOMAIN arr THEN arr[k] ELSE Undefined
\* commander applies parseFloat to the argument of --blur
blur == IF options.blur.given THEN parseFloat(options.blur.s) ELSE Undefined

supportedFormats ==
    {"heic", "heif", "avif", "jpeg", "jpg", "png", "raw", "tiff", "tif", "webp",
     "gif", "jp2", "jpx", "j2k", "j2c", "svg"}
\* an isValidFormat that accepts every name
isValidFormat_Any(f) == TRUE
isValidFormat(f) == f \in supportedFormats

\* !options.input || !options.output || !options.format: undefined and "" are falsy
Falsy(str) == str = Absent \/ str = ""
MissingRequired == Falsy(options.input) \/ Falsy(options.output) \/ Falsy(options.format)

---------------------------------------------------------------------------
(* Paths *)

InputDirectory == "fixtures/input_directory"
InputImage == "fixtures/input.jpeg"
InputUrl == "https://example.com/image.jpeg"
InputNonexistent == "fixtures/nonexistent.jpeg"
\* a relative local path that begins with the URL scheme (directory "http:", file below it)
InputHttpNamed == "http://cache/image.jpeg"
InputSpecs == {InputDirectory, InputImage, InputUrl, InputNonexistent, InputHttpNamed}

OutputFilePath == "out/a.png"
OutputDirPath == "out"
OutputSpecs == {OutputFilePath, OutputDirPath}

\* String.prototype.startsWith("http://") || startsWith("https://")
StartsWithHttp(p) == p \in {InputUrl, InputHttpNamed}
\* path.dirname and path.parse(p).name over the output paths of the model
dirname(p) == CASE p = OutputFilePath -> "out" [] OTHER -> "."
ParseName(p) == CASE p = OutputFilePath -> "a" [] OTHER -> p
\* path.join(dir, name)
join(dir, name) == dir \o "/" \o name

\* a directory entry: its file name is name.ext (name alone when ext is empty), and
\* path.parse(file).name is name; kind is what reading and sniffing it gives
Entry(name, ext, kind) == [name |-> name, ext |-> ext, kind |-> kind]
FileName(e) == IF e.ext = "" THEN e.name ELSE e.name \o "." \o e.ext
EntryUniverse ==
    { Entry("a", "jpg", "image"), Entry("a", "png", "image"), Entry("a_1", "jpg", "image"),
      Entry("notes", "txt", "text"), Entry("bad", "jpg", "corrupt"),
      Entry("sub", "", "directory"), Entry("gone", "jpg", "missing") }

\* sequences of distinct elements of S, up to length n
Range(q) == {q[i] : i \in DOMAIN q}
RECURSIVE DistinctSeqs(_, _)
DistinctSeqs(S, n) ==
    IF n = 0 THEN {<<>>}
    ELSE LET shorter == DistinctSeqs(S, n - 1)
             longest == {q \in shorter : Len(q) = n - 1}
         IN  shorter \cup UNION {{Append(q, x) : x \in S \ Range(q)} : q \in longest}

---------------------------------------------------------------------------
(* The states a run can start in *)

NoRoi == [given |-> FALSE, regions |-> <<>>]
\* --roi-compression x:y:w:h:q,... as the list of its regions' numbers
RoiGiven(regions) == [given |-> TRUE, regions |-> regions]

DefaultOptions ==
    [input |-> InputImage, output |-> OutputFilePath, format |-> "png",
     compression |-> NotGiven, resize |-> NotGiven, flatten |-> Absent,
     sharpen |-> FALSE, denoise |-> FALSE, grayscale |-> FALSE, blur |-> NotGiven,
     autoOptimize |-> FALSE, preserveAspectRatio |-> FALSE, lossless |-> FALSE,
     progressive |-> FALSE, subsample |-> Absent, adaptiveQuantization |-> FALSE,
     roiCompression |-> NoRoi]

ResizeChars == {"2", "0", "x", "X", "a", "-", "."}
CompressionChars == {"0", "1", "-", "a"}
BlurChars == {"0", "1", "5", "-", ".", "a"}
ResizeStrings == StringsUpTo(ResizeChars, MaxResizeLen)
CompressionStrings == StringsUpTo(CompressionChars, MaxCompressionLen)
BlurStrings == StringsUpTo(BlurChars, MaxBlurLen)
FormatSpecs == supportedFormats \cup {"PNG", "JPG", "Jpeg", "bmp", "", Absent}
RoiSpecs ==
    {NoRoi, RoiGiven(<< <<0, 0, 1, 1, 50>> >>),
     RoiGiven(<< <<0, 0, 1, 1, 50>>, <<1, 1, 2, 2, 0>> >>)}

NoEnv == [exists |-> FALSE, isDir |-> FALSE, payload |-> "none", entries |-> <<>>]
\* what the input specifier names: a directory with its entries, a local file with its
\* content, a URL with what the GET returns, or nothing
Envs(input) ==
    CASE input = InputDirectory ->
           {[exists |-> TRUE, isDir |-> TRUE, payload |-> "none", entries |-> q] :
                q \in DistinctSeqs(EntryUniverse, MaxEntries)}
      [] input = InputImage ->
           {[exists |-> TRUE, isDir |-> FALSE, payload |-> k, entries |-> <<>>] :
                k \in {"image", "text", "pdf", "corrupt"}}
      [] input = InputUrl ->
           {[exists |-> FALSE, isDir |-> FALSE, payload |-> k, entries |-> <<>>] :
                k \in {"image", "text", "pdf", "corrupt", "netfail"}}
      [] input = InputHttpNamed ->
           {[exists |-> TRUE, isDir |-> FALSE, payload |-> k, entries |-> <<>>] :
                k \in {"image", "text", "netfail"}}
      [] OTHER -> {NoEnv}
ImageEnv == [exists |-> TRUE, isDir |-> FALSE, payload |-> "image", entries |-> <<>>]

\* the candidate names of generateUniqueFileName: base.ext, base_1.ext, base_2.ext, ...
Candidate(baseName, counter, ext) ==
    IF counter = 0 THEN baseName \o "." \o ext
    ELSE baseName \o "_" \o ToString(counter) \o "." \o ext

\* where a run with these options writes, and the files that may be there before it
TargetDir(o, e) == IF e.isDir THEN o.output ELSE dirname(o.output)
TargetBase(o, e) == IF e.isDir THEN "a" ELSE ParseName(o.output)
TargetExt(o) == CanonicalFormat(o.format)
PreUniverse(o, e) ==
    {join(TargetDir(o, e), Candidate(TargetBase(o, e), k, TargetExt(o))) : k \in 0..MaxCounter}
\* the output directory is missing, or exists with any of the candidate files in it
Worlds(o, e) ==
    IF o.output = Absent \/ o.format = Absent THEN {[dirExists |-> FALSE, pre |-> {}]}
    ELSE {[dirExists |-> FALSE, pre |-> {}]} \cup
         {[dirExists |-> TRUE, pre |-> P] : P \in SUBSET PreUniverse(o, e)}
EmptyWorld == [dirExists |-> FALSE, pre |-> {}]

Config(o, e, w) == [options |-> o, env |-> e, world |-> w]

\* every input, output and world, with the default flags
WorldConfigs ==
    UNION { UNION { {Config(o, e, w) : w \in Worlds(o, e)} : e \in Envs(o.input) } :
            o \in {[DefaultOptions EXCEPT !.input = i, !.output = p] :
                       i \in InputSpecs, p \in OutputSpecs} }
\* every format name, with and without the other required flags
FormatConfigs ==
    { Config([DefaultOptions EXCEPT !.input = i, !.output = p, !.format = f],
             IF i = InputImage THEN ImageEnv ELSE NoEnv, EmptyWorld) :
          i \in {Absent, "", InputImage}, p \in {Absent, OutputFilePath}, f \in FormatSpecs }
\* every --resize string; the short ones also with --preserve-aspect-ratio
ResizeConfigs ==
    { Config([DefaultOptions EXCEPT !.resize = Given(s)], ImageEnv, EmptyWorld) :
          s \in ResizeStrings } \cup
    { Config([DefaultOptions EXCEPT !.resize = Given(s), !.preserveAspectRatio = TRUE],
             ImageEnv, EmptyWorld) : s \in {r \in ResizeStrings : Len(r) <= 3} }
\* every --compression string, for every format, with and without --lossless
CompressionConfigs ==
    { Config([DefaultOptions EXCEPT !.compression = Given(s), !.format = f, !.lossless = l],
             ImageEnv, EmptyWorld) :
          s \in CompressionStrings, f \in supportedFormats, l \in BOOLEAN }
\* every --blur string, with and without --autoOptimize
BlurConfigs ==
    { Config([DefaultOptions EXCEPT !.blur = Given(s), !.autoOptimize = ao],
             ImageEnv, EmptyWorld) : s \in BlurStrings, ao \in BOOLEAN }
\* the optimisation flags in every combination
FlagConfigs ==
    { Config([DefaultOptions EXCEPT !.flatten = fl, !.sharpen = sh, !.denoise = de,
                                    !.grayscale = gr, !.autoOptimize = ao, !.blur = bl,
                                    !.roiCompression = roi],
             ImageEnv, EmptyWorld) :
          fl \in {Absent, "true", "#000000"}, sh \in BOOLEAN, de \in BOOLEAN,
          gr \in BOOLEAN, ao \in BOOLEAN, bl \in {NotGiven, Given(<<"2">>)},
          roi \in RoiSpecs }
\* the jpeg-only flags
JpegConfigs ==
    { Config([DefaultOptions EXCEPT !.format = "jpeg", !.compression = c,
                                    !.progressive = pr, !.subsample = ss,
                                    !.adaptiveQuantization = aq, !.lossless = l],
             ImageEnv, EmptyWorld) :
          c \in {NotGiven, Given(<<"5", "0">>)}, pr \in BOOLEAN, ss \in {Absent, "4:4:4"},
          aq \in BOOLEAN, l \in BOOLEAN }
\* a directory run whose flags fail every item, or warn on every item
DirectoryFlagConfigs ==
    UNION { {Config(o, e, EmptyWorld) : e \in Envs(InputDirectory)} :
            o \in {[DefaultOptions EXCEPT !.input = InputDirectory, !.output = OutputDirPath,
                                          !.compression = Given(c), !.format = f] :
                       c \in {<<"1", "0", "1">>, <<"5", "0">>}, f \in {"gif", "jpg"}} }

\* every step of the pipeline requested in one run
PipelineConfigs ==
    { Config([DefaultOptions EXCEPT !.resize = Given(<<"2", "x", "2">>),
                                    !.preserveAspectRatio = par,
                                    !.compression = Given(<<"5", "0">>), !.format = f,
                                    !.lossless = l, !.roiCompression = roi,
                                    !.flatten = "true", !.sharpen = TRUE, !.denoise = TRUE,
                                    !.grayscale = TRUE, !.blur = Given(<<"2">>),
                                    !.autoOptimize = ao],
             ImageEnv, EmptyWorld) :
          par \in BOOLEAN, f \in {"jpeg", "webp"}, l \in BOOLEAN, ao \in BOOLEAN,
          roi \in {NoRoi, RoiGiven(<< <<0, 0, 1, 1, 50>>, <<1, 1, 1, 1, 80>> >>)} }

InitConfigs ==
    WorldConfigs \cup FormatConfigs \cup ResizeConfigs \cup CompressionConfigs \cup
    BlurConfigs \cup FlagConfigs \cup JpegConfigs \cup DirectoryFlagConfigs \cup
    PipelineConfigs

MaxItems == IF MaxEntries > 1 THEN MaxEntries ELSE 1
Items == 1..MaxItems

InitWith(c) ==
    /\ options = c.options
    /\ env = c.env
    /\ dirs = {"."} \cup (IF c.world.dirExists THEN {TargetDir(c.options, c.env)} ELSE {})
    /\ mkdirs = {}
    /\ outFiles = [p \in c.world.pre |-> 0]
    /\ pc = "load"
    /\ exitCode = -1
    /\ files = <<>>
    /\ idx = 0
    /\ cur = 0
    /\ ipc = [i \in Items |-> "idle"]
    /\ inputFile = [i \in Items |-> ""]
    /\ outputFile = [i \in Items |-> ""]
    /\ applied = [i \in Items |-> <<>>]
    /\ stdout = <<>>
    /\ stderr = <<>>
    /\ bar = [total |-> 0, curr |-> 0]
    /\ requests = <<>>

Init == \E c \in InitConfigs : InitWith(c)

---------------------------------------------------------------------------
(* Helpers of the actions *)

Line(ctx, file, msg) == [ctx |-> ctx, file |-> file, msg |-> msg]
Finished(i) == ipc[i] \in {"written", "failed"}
\* what reading and sniffing item i's input gives
ItemKind(i) == IF env.isDir THEN files[i].kind ELSE env.payload

\* fs.existsSync on a path of the output directory
\* an existsSync that finds nothing
existsSync_Never(filePath) == FALSE
existsSync(filePath) == filePath \in DOMAIN outFiles

RECURSIVE UniqueLoop(_, _, _, _, _)
UniqueLoop(filePath, counter, dir, baseName, ext) ==
    IF existsSync(filePath)
    THEN UniqueLoop(join(dir, baseName \o "_" \o ToString(counter) \o "." \o ext),
                    counter + 1, dir, baseName, ext)
    ELSE filePath
\* a generateUniqueFileName that does not look at the directory
generateUniqueFileName_NoCheck(dir, baseName, ext) == join(dir, baseName \o "." \o ext)
generateUniqueFileName(dir, baseName, ext) ==
    UniqueLoop(join(dir, baseName \o "." \o ext), 1, dir, baseName, ext)

\* if (!fs.existsSync(dirPath)) fs.mkdirSync(dirPath, { recursive: true })
ensureDirectoryExists(dirPath) ==
    /\ dirs' = dirs \cup {dirPath}
    /\ mkdirs' = IF dirPath \in dirs THEN mkdirs ELSE mkdirs \cup {dirPath}

\* processImage goes on: calls are made on the pipeline, warnings are printed
Continue(i, nextPc, calls, warnings) ==
    /\ ipc' = [ipc EXCEPT ![i] = nextPc]
    /\ applied' = [applied EXCEPT ![i] = applied[i] \o calls]
    /\ stderr' = stderr \o warnings
\* an exception reaches processImage's catch: it is logged and processImage returns
Catch(i, calls, msg) ==
    /\ ipc' = [ipc EXCEPT ![i] = "failed"]
    /\ applied' = [applied EXCEPT ![i] = applied[i] \o calls]
    /\ stderr' = Append(stderr, Line("Error processing image", inputFile[i], msg))
    /\ cur' = 0

---------------------------------------------------------------------------
(* What the sharp library accepts (its parameter validation throws otherwise) *)

\* resize({width, height}): both positive integers
SharpResizeAccepts(w, h) ==
    /\ IsInteger(w) /\ Greater(w, 0)
    /\ IsInteger(h) /\ Greater(h, 0)
\* a / b rounded to the nearest integer
RoundDiv(a, b) == (2 * a + b) \div (2 * b)
\* resize({width, height, fit}) of a source of src[1] by src[2] pixels: fill gives
\* exactly width by height; inside scales by the smaller of the two ratios
SharpResizedDimensions(fit, w, h, src) ==
    IF fit = "fill" THEN <<w, h>>
    ELSE IF w * src[2] <= h * src[1]
         THEN <<w, IF RoundDiv(src[2] * w, src[1]) > 0 THEN RoundDiv(src[2] * w, src[1]) ELSE 1>>
         ELSE <<IF RoundDiv(src[1] * h, src[2]) > 0 THEN RoundDiv(src[1] * h, src[2]) ELSE 1, h>>
\* jpeg/webp/avif/tiff/heif({quality}): undefined, or an integer in 1..100
SharpQualityAccepts(q) ==
    q.kind = "undefined" \/ (IsInteger(q) /\ ~Less(q, 1) /\ ~Greater(q, 100))
\* png({compressionLevel}): undefined, or an integer in 0..9
SharpCompressionLevelAccepts(c) ==
    c.kind = "undefined" \/ (IsInteger(c) /\ ~Less(c, 0) /\ ~Greater(c, 9))
\* blur(sigma): a number between 0.3 and 1000
SharpBlurAccepts(sigma) == TenthsAtLeast(sigma, 3) /\ ~Greater(sigma, 1000)
\* extract({left, top, width, height}) and jpeg({quality}) of one ROI region
SharpRegionAccepts(r) ==
    r[1] >= 0 /\ r[2] >= 0 /\ r[3] > 0 /\ r[4] > 0 /\ r[5] >= 1 /\ r[5] <= 100
\* toFormat(format): the names sharp encodes to
SharpOutputFormats ==
    {"heic", "heif", "avif", "jpeg", "jpg", "png", "raw", "tiff", "tif", "webp",
     "gif", "jp2", "jpx", "j2k", "j2c"}

---------------------------------------------------------------------------
(* The module body and run() *)

\* the required-option check of the module body
Load ==
    /\ pc = "load"
    /\ IF MissingRequired
       THEN /\ stderr' = Append(stderr, Line("Error", "",
                "Please specify input file/directory/URL, output file/directory, and format."))
            /\ exitCode' = 1
            /\ pc' = "exited"
       ELSE /\ pc' = "run"
            /\ UNCHANGED <<stderr, exitCode>>
    /\ UNCHANGED <<options, env, dirs, mkdirs, outFiles, files, idx, cur, ipc,
                   inputFile, outputFile, applied, stdout, bar, requests>>

\* run(): if (!isValidFormat(format)) { console.error(...); process.exit(1) }
RunValidate ==
    /\ pc = "run"
    /\ IF ~isValidFormat(format)
       THEN /\ stderr' = Append(stderr, Line("Error", "", "Unsupported format specified."))
            /\ exitCode' = 1
            /\ pc' = "exited"
       ELSE /\ pc' = "dispatch"
            /\ UNCHANGED <<stderr, exitCode>>
    /\ UNCHANGED <<options, env, dirs, mkdirs, outFiles, files, idx, cur, ipc,
                   inputFile, outputFile, applied, stdout, bar, requests>>

\* run(), single input: the output directory is made, the output name is generated
\* and processImage(inputPath, outputFile, bar) is called
StartSingle(withBar) ==
    LET outputDir == dirname(outputPath)
    IN  /\ ensureDirectoryExists(outputDir)
        /\ bar' = IF withBar THEN [total |-> 1, curr |-> 0] ELSE bar
        /\ outputFile' = [outputFile EXCEPT
               ![1] = generateUniqueFileName(outputDir, ParseName(outputPath), format)]
        /\ inputFile' = [inputFile EXCEPT ![1] = inputPath]
        /\ ipc' = [ipc EXCEPT ![1] = "start"]
        /\ cur' = 1
        /\ pc' = "single"
        /\ UNCHANGED <<options, env, outFiles, exitCode, files, idx, applied, stdout, stderr,
                     requests>>

\* fs.existsSync(inputPath) and it is not a directory
RunFile ==
    /\ pc = "dispatch"
    /\ env.exists /\ ~env.isDir
    /\ StartSingle(TRUE)

\* inputPath does not exist and starts with http:// or https://
RunUrl ==
    /\ pc = "dispatch"
    /\ ~env.exists /\ StartsWithHttp(inputPath)
    /\ StartSingle(TRUE)

\* neither: console.error("Error: Input path does not exist."); process.exit(1)
RunNotFound ==
    /\ pc = "dispatch"
    /\ ~env.exists /\ ~StartsWithHttp(inputPath)
    /\ stderr' = Append(stderr, Line("Error", "", "Input path does not exist."))
    /\ exitCode' = 1
    /\ pc' = "exited"
    /\ UNCHANGED <<options, env, dirs, mkdirs, outFiles, files, idx, cur, ipc,
                   inputFile, outputFile, applied, stdout, bar, requests>>

\* a run() that turns the item's failure into the exit code
RunReturn_FailureExits ==
    /\ pc = "single"
    /\ cur = 0 /\ Finished(1)
    /\ exitCode' = IF ipc[1] = "failed" THEN 1 ELSE 0
    /\ pc' = "exited"
    /\ UNCHANGED <<options, env, dirs, mkdirs, outFiles, files, idx, cur, ipc,
                   inputFile, outputFile, applied, stdout, stderr, bar, requests>>

\* the awaited processImage has returned, run() returns, the process ends with code 0
RunReturn ==
    /\ pc = "single"
    /\ cur = 0 /\ Finished(1)
    /\ exitCode' = 0
    /\ pc' = "exited"
    /\ UNCHANGED <<options, env, dirs, mkdirs, outFiles, files, idx, cur, ipc,
                   inputFile, outputFile, applied, stdout, stderr, bar, requests>>

---------------------------------------------------------------------------
(* processDirectory, awaiting each item *)

\* run() calls processDirectory(inputPath, outputPath): the output directory is made,
\* the input directory is read, the progress bar is created
RunDirectory ==
    /\ pc = "dispatch"
    /\ env.exists /\ env.isDir
    /\ ensureDirectoryExists(outputPath)
    /\ files' = env.entries
    /\ bar' = [total |-> Len(env.entries), curr |-> 0]
    /\ idx' = 0
    /\ pc' = "dirloop"
    /\ UNCHANGED <<options, env, outFiles, exitCode, cur, ipc, inputFile, outputFile,
                   applied, stdout, stderr, requests>>

\* one iteration of for (const file of files), entered when the awaited processImage
\* of the iteration before has returned
ProcessDirectoryNext ==
    /\ pc = "dirloop"
    /\ cur = 0
    /\ idx < Len(files)
    /\ idx > 0 => Finished(idx)
    /\ LET i == idx + 1
           file == files[i]
       IN  /\ inputFile' = [inputFile EXCEPT ![i] = join(inputPath, FileName(file))]
           /\ outputFile' = [outputFile EXCEPT
                  ![i] = generateUniqueFileName(outputPath, file.name, format)]
           /\ ipc' = [ipc EXCEPT ![i] = "start"]
           /\ cur' = i
           /\ idx' = i
    /\ UNCHANGED <<options, env, dirs, mkdirs, outFiles, pc, exitCode, files, applied,
                   stdout, stderr, bar, requests>>

\* a processDirectory whose loop is left at the first failed item
ProcessDirectoryEnd_OnFailure ==
    /\ pc = "dirloop"
    /\ cur = 0
    /\ idx > 0 => Finished(idx)
    /\ idx = Len(files) \/ (idx > 0 /\ ipc[idx] = "failed")
    /\ exitCode' = 0
    /\ pc' = "exited"
    /\ UNCHANGED <<options, env, dirs, mkdirs, outFiles, files, idx, cur, ipc,
                   inputFile, outputFile, applied, stdout, stderr, bar, requests>>

\* the loop is over: processDirectory and run() return, the process ends with code 0
ProcessDirectoryEnd ==
    /\ pc = "dirloop"
    /\ cur = 0
    /\ idx = Len(files)
    /\ idx > 0 => Finished(idx)
    /\ exitCode' = 0
    /\ pc' = "exited"
    /\ UNCHANGED <<options, env, dirs, mkdirs, outFiles, files, idx, cur, ipc,
                   inputFile, outputFile, applied, stdout, stderr, bar, requests>>

---------------------------------------------------------------------------
(* processImage *)

NotAnImage == "is not a valid image."
InvalidResize ==
    "Invalid resize dimensions. Please provide dimensions in the format WIDTHxHEIGHT or WIDTHXHEIGHT."
InvalidCompression ==
    "Invalid compression level. Please provide a value between 0 and 100."
InvalidBlur == "Invalid blur sigma value. Please provide a positive number."
\* the message of the error sharp throws for a parameter it does not accept
SharpInvalidParameter == "Expected a valid parameter"

\* what the input of item i turns out to be when it is fetched or read:
\* "" when the bytes are there, the exception's message otherwise
ReadError(path, kind) ==
    IF StartsWithHttp(path)
    THEN IF kind = "netfail" THEN "Request failed" ELSE ""
    ELSE IF kind = "missing" THEN "Input file " \o path \o " does not exist."
    ELSE IF kind = "directory" THEN "EISDIR: illegal operation on a directory, read"
    ELSE ""

\* if (inputFile.startsWith("http://") || inputFile.startsWith("https://"))
\* axios.get(inputFile, ...): the requests processImage makes for a path
Get(path) == IF StartsWithHttp(path) THEN <<path>> ELSE <<>>

\* the URL is fetched (axios.get) or the file is read (existsSync, readFileSync);
\* processImage then awaits fileType.fromBuffer
Read(i) ==
    /\ cur = i
    /\ ipc[i] = "start"
    /\ LET err == ReadError(inputFile[i], ItemKind(i))
       IN  IF err # ""
           THEN Catch(i, <<>>, err)
           ELSE Continue(i, "sniff", <<>>, <<>>) /\ cur' = 0
    /\ requests' = requests \o Get(inputFile[i])
    /\ UNCHANGED <<options, env, dirs, mkdirs, outFiles, pc, exitCode, files, idx,
                   inputFile, outputFile, stdout, bar>>

\* a processImage that trusts the bytes it got
Sniff_NoCheck(i) ==
    /\ cur = 0
    /\ ipc[i] = "sniff"
    /\ Continue(i, "resize", <<>>, <<>>) /\ cur' = i
    /\ UNCHANGED <<options, env, dirs, mkdirs, outFiles, pc, exitCode, files, idx,
                   inputFile, outputFile, stdout, bar, requests>>

\* the sniffed type: if (!type || !type.mime.startsWith("image/")) throw;
\* otherwise let image = sharp(imageBuffer)
Sniff(i) ==
    /\ cur = 0
    /\ ipc[i] = "sniff"
    /\ IF ItemKind(i) \notin {"image", "corrupt"}
       THEN Catch(i, <<>>,
                (IF StartsWithHttp(inputFile[i]) THEN "The fetched file " ELSE "The input file ")
                    \o NotAnImage)
       ELSE Continue(i, "resize", <<>>, <<>>) /\ cur' = i
    /\ UNCHANGED <<options, env, dirs, mkdirs, outFiles, pc, exitCode, files, idx,
                   inputFile, outputFile, stdout, bar, requests>>

\* if (resize) { isNaN check; image = image.resize({width, height, fit, background}) }
ResizeStep(i, fit) ==
    /\ cur = i
    /\ ipc[i] = "resize"
    /\ IF resize.null
       THEN Continue(i, "compression", <<>>, <<>>) /\ cur' = cur
       ELSE LET w == At(resize.v, 1)
                h == At(resize.v, 2)
            IN  IF isNaN(w) \/ isNaN(h)
                THEN Catch(i, <<>>, InvalidResize)
                ELSE IF ~SharpResizeAccepts(w, h)
                THEN Catch(i, <<>>, SharpInvalidParameter)
                ELSE Continue(i, "compression",
                              << [op |-> "resize", width |-> w, height |-> h, fit |-> fit] >>,
                              <<>>) /\ cur' = cur
    /\ UNCHANGED <<options, env, dirs, mkdirs, outFiles, pc, exitCode, files, idx,
                   inputFile, outputFile, stdout, bar, requests>>

\* fit: options.preserveAspectRatio ? sharp.fit.inside : sharp.fit.fill
Resize(i) == ResizeStep(i, IF options.preserveAspectRatio THEN "inside" ELSE "fill")

\* if (compression !== undefined) if (compression < 0 || compression > 100) throw
CompressionInvalid == compression.kind # "undefined" /\ (Less(compression, 0) \/ Greater(compression, 100))

ValidateCompression(i) ==
    /\ cur = i
    /\ ipc[i] = "compression"
    /\ IF CompressionInvalid
       THEN Catch(i, <<>>, InvalidCompression)
       ELSE Continue(i, "encoding", <<>>, <<>>) /\ cur' = cur
    /\ UNCHANGED <<options, env, dirs, mkdirs, outFiles, pc, exitCode, files, idx,
                   inputFile, outputFile, stdout, bar, requests>>

\* a call that sets the encoder of the pipeline
Encoder(op, mode, level) == [op |-> op, mode |-> mode, level |-> level]
Warning(text) == Line("Warning", "", text \o format \o ".")

\* the lossless branch: [call, accepted by sharp] or no call, and the warning if any
LosslessFormats == {"png", "webp", "avif", "tiff", "heif", "heic"}
LosslessCall ==
    IF format = "png"
    THEN <<Encoder("png", "compressionLevel", compression)>>
    ELSE IF format = "webp" THEN <<Encoder("webp", "lossless", compression)>>
    ELSE IF format = "avif" THEN <<Encoder("avif", "lossless", compression)>>
    ELSE IF format = "tiff" \/ format = "tif" THEN <<Encoder("tiff", "lzw", compression)>>
    ELSE IF format = "heif" \/ format = "heic" THEN <<Encoder("heif", "lossless", compression)>>
    ELSE <<>>

\* the quality branch; png and tiff are tested for inside a list that does not hold them
QualityFormats == {"jpeg", "jpg", "avif", "heif", "heic", "webp"}
QualityCall ==
    IF format = "jpeg" \/ format = "jpg"
    THEN << [op |-> "jpeg", mode |-> "quality", level |-> compression,
             progressive |-> options.progressive, chromaSubsampling |-> subsample,
             quantizationTable |-> options.adaptiveQuantization] >>
    ELSE IF format = "png" THEN <<Encoder("png", "quality", compression)>>
    ELSE IF format = "webp" THEN <<Encoder("webp", "quality", compression)>>
    ELSE IF format = "tiff" \/ format = "tif" THEN <<Encoder("tiff", "quality", compression)>>
    ELSE IF format = "heif" \/ format = "heic" THEN <<Encoder("heif", "quality", compression)>>
    ELSE IF format = "avif" THEN <<Encoder("avif", "quality", compression)>>
    ELSE <<>>

\* sharp's validation of an encoder call
SharpEncoderAccepts(call) ==
    IF call.mode = "compressionLevel" THEN SharpCompressionLevelAccepts(call.level)
    ELSE SharpQualityAccepts(call.level)

EncodingStep(i, lossless) ==
    /\ cur = i
    /\ ipc[i] = "encoding"
    /\ LET calls ==
               IF lossless
               THEN IF format \in LosslessFormats THEN LosslessCall ELSE <<>>
               ELSE IF compression.kind # "undefined" /\ format \in QualityFormats
                    THEN QualityCall ELSE <<>>
           warnings ==
               IF lossless
               THEN IF format \notin LosslessFormats /\ compression.kind # "undefined"
                    THEN <<Warning("Lossless compression is not supported for format ")>>
                    ELSE <<>>
               ELSE IF compression.kind # "undefined" /\ format \notin QualityFormats
                    THEN <<Warning("Compression setting is not supported for format ")>>
                    ELSE <<>>
       IN  IF \E k \in DOMAIN calls : ~SharpEncoderAccepts(calls[k])
           THEN Catch(i, <<>>, SharpInvalidParameter)
           ELSE Continue(i, "roi", calls, warnings) /\ cur' = cur
    /\ UNCHANGED <<options, env, dirs, mkdirs, outFiles, pc, exitCode, files, idx,
                   inputFile, outputFile, stdout, bar, requests>>

Encoding(i) == EncodingStep(i, options.lossless)


\* the regions of --roi-compression, one per step: extract, jpeg({quality}),
\* await toBuffer, composite
RegionsDone(i) == Cardinality({k \in DOMAIN applied[i] : applied[i][k].op = "composite"})

Roi(i) ==
    /\ cur = i
    /\ ipc[i] = "roi"
    /\ LET regions == options.roiCompression.regions
           k == RegionsDone(i) + 1
       IN  IF ~options.roiCompression.given \/ k > Len(regions)
           THEN Continue(i, "flatten", <<>>, <<>>) /\ cur' = cur
           ELSE IF ~SharpRegionAccepts(regions[k])
           THEN Catch(i, <<>>, SharpInvalidParameter)
           ELSE Continue(i, "roi",
                         << [op |-> "extract", region |-> k],
                            [op |-> "roi-jpeg", region |-> k],
                            [op |-> "composite", region |-> k] >>,
                         <<>>) /\ cur' = cur
    /\ UNCHANGED <<options, env, dirs, mkdirs, outFiles, pc, exitCode, files, idx,
                   inputFile, outputFile, stdout, bar, requests>>

\* if (options.flatten) image = image.flatten({ background })
Flatten(i) ==
    /\ cur = i
    /\ ipc[i] = "flatten"
    /\ Continue(i, "optimize",
                IF options.flatten # Absent /\ options.flatten # ""
                THEN << [op |-> "flatten",
                         background |-> IF options.flatten = "true" THEN "#ffffff"
                                        ELSE options.flatten] >>
                ELSE <<>>,
                <<>>)
    /\ cur' = cur
    /\ UNCHANGED <<options, env, dirs, mkdirs, outFiles, pc, exitCode, files, idx,
                   inputFile, outputFile, stdout, bar, requests>>

\* a bundle that denoises before it sharpens
applyOptimizations_Reversed == << [op |-> "median"], [op |-> "sharpen"] >>
\* image.sharpen().median()
applyOptimizations == << [op |-> "sharpen"], [op |-> "median"] >>

\* an optimization step that applies the bundle and then the requested flags as well
Optimize_Both(i) ==
    /\ cur = i
    /\ ipc[i] = "optimize"
    /\ Continue(i, "toFile",
                (IF options.autoOptimize THEN applyOptimizations ELSE <<>>) \o
                (IF options.sharpen THEN << [op |-> "sharpen"] >> ELSE <<>>) \o
                (IF options.denoise THEN << [op |-> "median"] >> ELSE <<>>) \o
                (IF options.grayscale THEN << [op |-> "grayscale"] >> ELSE <<>>) \o
                (IF Truthy(blur) THEN << [op |-> "blur", sigma |-> blur] >> ELSE <<>>),
                <<>>)
    /\ cur' = cur
    /\ UNCHANGED <<options, env, dirs, mkdirs, outFiles, pc, exitCode, files, idx,
                   inputFile, outputFile, stdout, bar, requests>>

\* if (options.autoOptimize) applyOptimizations(image); else sharpen, denoise,
\* grayscale and blur as requested; blur is entered only when options.blur is truthy
Optimize(i) ==
    /\ cur = i
    /\ ipc[i] = "optimize"
    /\ IF options.autoOptimize
       THEN Continue(i, "toFile", applyOptimizations, <<>>) /\ cur' = cur
       ELSE LET calls ==
                    (IF options.sharpen THEN << [op |-> "sharpen"] >> ELSE <<>>) \o
                    (IF options.denoise THEN << [op |-> "median"] >> ELSE <<>>) \o
                    (IF options.grayscale THEN << [op |-> "grayscale"] >> ELSE <<>>)
            IN  IF ~Truthy(blur)
                THEN Continue(i, "toFile", calls, <<>>) /\ cur' = cur
                ELSE IF isNaN(blur) \/ LessEq(blur, 0)
                THEN Catch(i, calls, InvalidBlur)
                ELSE IF ~SharpBlurAccepts(blur)
                THEN Catch(i, calls, SharpInvalidParameter)
                ELSE Continue(i, "toFile", calls \o << [op |-> "blur", sigma |-> blur] >>, <<>>)
                     /\ cur' = cur
    /\ UNCHANGED <<options, env, dirs, mkdirs, outFiles, pc, exitCode, files, idx,
                   inputFile, outputFile, stdout, bar, requests>>

\* image.toFormat(format).toFile(outputFile) is called; processImage awaits it
ToFile(i) ==
    /\ cur = i
    /\ ipc[i] = "toFile"
    /\ IF format \notin SharpOutputFormats
       THEN Catch(i, <<>>, "Unsupported output format " \o format)
       ELSE Continue(i, "writing", << [op |-> "toFormat", format |-> format] >>, <<>>)
            /\ cur' = 0
    /\ UNCHANGED <<options, env, dirs, mkdirs, outFiles, pc, exitCode, files, idx,
                   inputFile, outputFile, stdout, bar, requests>>

\* toFile settles: the file is written (over whatever is at the path) and the
\* conversion is logged, or the codec rejects the image and the catch logs it
WriteDone(i, tick) ==
    /\ cur = 0
    /\ ipc[i] = "writing"
    /\ IF ItemKind(i) = "corrupt"
       THEN /\ Catch(i, <<>>, "Input file contains unsupported image format")
            /\ UNCHANGED <<outFiles, stdout, bar>>
       ELSE /\ outFiles' = [p \in DOMAIN outFiles \cup {outputFile[i]} |->
                               IF p = outputFile[i] THEN i ELSE outFiles[p]]
            /\ stdout' = Append(stdout, [ctx |-> "Converted", file |-> inputFile[i],
                                          to |-> outputFile[i], as |-> format])
            /\ bar' = IF tick THEN [bar EXCEPT !.curr = bar.curr + 1] ELSE bar
            /\ Continue(i, "written", <<>>, <<>>)
            /\ cur' = 0
    /\ UNCHANGED <<options, env, dirs, mkdirs, pc, exitCode, files, idx,
                   inputFile, outputFile, requests>>

\* ... and bar.tick()
Written(i) == WriteDone(i, TRUE)

---------------------------------------------------------------------------
(* The revision whose processDirectory awaits each item *)

Next ==
    \/ Load
    \/ RunValidate
    \/ RunFile
    \/ RunUrl
    \/ RunNotFound
    \/ RunReturn
    \/ RunDirectory
    \/ ProcessDirectoryNext
    \/ ProcessDirectoryEnd
    \/ \E i \in Items : Read(i)
    \/ \E i \in Items : Sniff(i)
    \/ \E i \in Items : Resize(i)
    \/ \E i \in Items : ValidateCompression(i)
    \/ \E i \in Items : Encoding(i)
    \/ \E i \in Items : Roi(i)
    \/ \E i \in Items : Flatten(i)
    \/ \E i \in Items : Optimize(i)
    \/ \E i \in Items : ToFile(i)
    \/ \E i \in Items : Written(i)

Spec == Init /\ [][Next]_vars

\* Directory runs on their own: the runs whose input is a directory, with the
\* steps such a run can take. The event loop runs whatever continuation is ready,
\* and every call the run awaits settles, so a step that is enabled is taken.
DirectoryConfigs == {c \in WorldConfigs \cup DirectoryFlagConfigs : c.env.isDir}
InitDirectory == \E c \in DirectoryConfigs : InitWith(c)
NextDirectory ==
    \/ Load
    \/ RunValidate
    \/ RunDirectory
    \/ ProcessDirectoryNext
    \/ ProcessDirectoryEnd
    \/ \E i \in Items : Read(i)
    \/ \E i \in Items : Sniff(i)
    \/ \E i \in Items : Resize(i)
    \/ \E i \in Items : ValidateCompression(i)
    \/ \E i \in Items : Encoding(i)
    \/ \E i \in Items : Roi(i)
    \/ \E i \in Items : Flatten(i)
    \/ \E i \in Items : Optimize(i)
    \/ \E i \in Items : ToFile(i)
    \/ \E i \in Items : Written(i)

SpecDirectory == InitDirectory /\ [][NextDirectory]_vars /\ WF_vars(NextDirectory)

---------------------------------------------------------------------------
(* The revision index.js: no progress bar, no lossless and ROI steps, resize always *)
(* fits inside, and processDirectory starts every item from a forEach              *)

\* the flags index.js declares; commander rejects the others
IndexDeclares(o) ==
    /\ ~o.preserveAspectRatio /\ ~o.lossless /\ ~o.progressive
    /\ o.subsample = Absent /\ ~o.adaptiveQuantization /\ ~o.roiCompression.given
IndexConfigs ==
    {c \in WorldConfigs \cup FormatConfigs \cup CompressionConfigs \cup BlurConfigs
           \cup FlagConfigs \cup DirectoryFlagConfigs \cup PipelineConfigs :
               IndexDeclares(c.options)} \cup
    { Config([DefaultOptions EXCEPT !.resize = Given(s)], ImageEnv, EmptyWorld) :
          s \in {r \in ResizeStrings : Len(r) <= 3} }

InitIndex == \E c \in IndexConfigs : InitWith(c)

IndexRunFile ==
    /\ pc = "dispatch"
    /\ env.exists /\ ~env.isDir
    /\ StartSingle(FALSE)

IndexRunUrl ==
    /\ pc = "dispatch"
    /\ ~env.exists /\ StartsWithHttp(inputPath)
    /\ StartSingle(FALSE)

\* run() calls processDirectory: the output directory is made and fs.readdir is
\* started; processDirectory and run() return
IndexRunDirectory ==
    /\ pc = "dispatch"
    /\ env.exists /\ env.isDir
    /\ ensureDirectoryExists(outputPath)
    /\ pc' = "readdir"
    /\ UNCHANGED <<options, env, outFiles, exitCode, files, idx, cur, ipc, inputFile,
                   outputFile, applied, stdout, stderr, bar, requests>>

\* the readdir callback: files.forEach((file) => { ...; processImage(inputFile,
\* outputFile) }) with no await. Every output name is generated, and every
\* processImage runs to its first await (or to its catch), before the callback returns
IndexReaddirCallback ==
    /\ pc = "readdir"
    /\ cur = 0
    /\ LET n == Len(env.entries)
           in(i) == join(inputPath, FileName(env.entries[i]))
           err(i) == ReadError(in(i), env.entries[i].kind)
           failures == [i \in 1..n |->
                           IF err(i) # ""
                           THEN <<Line("Error processing image", in(i), err(i))>>
                           ELSE <<>>]
           Flat[k \in 0..n] == IF k = 0 THEN <<>> ELSE Flat[k - 1] \o failures[k]
           Gets[k \in 0..n] == IF k = 0 THEN <<>> ELSE Gets[k - 1] \o Get(in(k))
       IN  /\ files' = env.entries
           /\ idx' = n
           /\ inputFile' = [i \in Items |-> IF i <= n THEN in(i) ELSE inputFile[i]]
           /\ outputFile' = [i \in Items |->
                  IF i <= n
                  THEN generateUniqueFileName(outputPath, env.entries[i].name, format)
                  ELSE outputFile[i]]
           /\ ipc' = [i \in Items |->
                  IF i <= n THEN (IF err(i) # "" THEN "failed" ELSE "sniff") ELSE ipc[i]]
           /\ stderr' = stderr \o Flat[n]
           /\ requests' = requests \o Gets[n]
    /\ pc' = "forEachDone"
    /\ UNCHANGED <<options, env, dirs, mkdirs, outFiles, exitCode, cur, applied,
                   stdout, bar>>

\* nothing is pending any more: the process ends with code 0
IndexExit ==
    /\ pc = "forEachDone"
    /\ cur = 0
    /\ \A i \in 1..Len(files) : Finished(i)
    /\ exitCode' = 0
    /\ pc' = "exited"
    /\ UNCHANGED <<options, env, dirs, mkdirs, outFiles, files, idx, cur, ipc,
                   inputFile, outputFile, applied, stdout, stderr, bar, requests>>

\* fit: sharp.fit.inside
IndexResize(i) == ResizeStep(i, "inside")

\* if (compression !== undefined) { range check; the quality call of the format, or
\* the warning }; the jpeg call carries the quality alone
IndexQualityCall ==
    IF format = "jpeg" \/ format = "jpg" THEN <<Encoder("jpeg", "quality", compression)>>
    ELSE QualityCall

IndexCompression(i) ==
    /\ cur = i
    /\ ipc[i] = "compression"
    /\ IF compression.kind = "undefined"
       THEN Continue(i, "flatten", <<>>, <<>>) /\ cur' = cur
       ELSE IF CompressionInvalid
       THEN Catch(i, <<>>, InvalidCompression)
       ELSE IF format \notin QualityFormats
       THEN Continue(i, "flatten", <<>>,
                     <<Warning("Compression setting is not supported for format ")>>)
            /\ cur' = cur
       ELSE IF \E k \in DOMAIN IndexQualityCall : ~SharpEncoderAccepts(IndexQualityCall[k])
       THEN Catch(i, <<>>, SharpInvalidParameter)
       ELSE Continue(i, "flatten", IndexQualityCall, <<>>) /\ cur' = cur
    /\ UNCHANGED <<options, env, dirs, mkdirs, outFiles, pc, exitCode, files, idx,
                   inputFile, outputFile, stdout, bar, requests>>

IndexWritten(i) == WriteDone(i, FALSE)

NextIndex ==
    \/ Load
    \/ RunValidate
    \/ IndexRunFile
    \/ IndexRunUrl
    \/ RunNotFound
    \/ RunReturn
    \/ IndexRunDirectory
    \/ IndexReaddirCallback
    \/ IndexExit
    \/ \E i \in Items : Read(i)
    \/ \E i \in Items : Sniff(i)
    \/ \E i \in Items : IndexResize(i)
    \/ \E i \in Items : IndexCompression(i)
    \/ \E i \in Items : Flatten(i)
    \/ \E i \in Items : Optimize(i)
    \/ \E i \in Items : ToFile(i)
    \/ \E i \in Items : IndexWritten(i)

SpecIndex == InitIndex /\ [][NextIndex]_vars

---------------------------------------------------------------------------
(* Properties *)

\* the directory an item is written to and the base name of its output
ItemDir == IF env.isDir THEN outputPath ELSE dirname(outputPath)
ItemBase(i) == IF env.isDir THEN env.entries[i].name ELSE ParseName(outputPath)
\* between the start of the item's resolve step and the end of its write or failure
InProgress(i) == ipc[i] \notin {"idle", "written", "failed"}
WrittenBy(i) == {p \in DOMAIN outFiles : outFiles[p] = i}
DirectoryRun == pc \in {"dirloop", "readdir", "forEachDone"} \/ (pc = "exited" /\ files # <<>>)

\* C1: in a directory run, any two distinct entries that are both processed
\* successfully were written to different output paths.
C1_DistinctOutputPaths ==
    \A i, j \in Items :
        (i # j /\ ipc[i] = "written" /\ ipc[j] = "written") => outputFile[i] # outputFile[j]

\* C2: in a directory run at most one entry is in progress at any time, and the
\* output name of entry k+1 is generated only after entry k has finished.
C2_OneItemAtATime ==
    /\ Cardinality({i \in Items : InProgress(i)}) <= 1
    /\ \A k \in Items : (k + 1 \in Items /\ ipc[k + 1] # "idle") => Finished(k)

\* C3: whenever generateUniqueFileName gives an item its output path, that path is
\* the first of base.ext, base_1.ext, base_2.ext, ... that does not exist in the
\* directory at that time: it names no existing file, every earlier candidate
\* exists, and its counter is at most the number of existing files.
C3_FirstFreeName ==
    [][ \A i \in Items :
            outputFile'[i] # outputFile[i] =>
                \E k \in 0..Cardinality(DOMAIN outFiles) :
                    /\ outputFile'[i] = join(ItemDir, Candidate(ItemBase(i), k, format))
                    /\ outputFile'[i] \notin DOMAIN outFiles
                    /\ \A j \in 0..(k - 1) :
                           join(ItemDir, Candidate(ItemBase(i), j, format)) \in DOMAIN outFiles
      ]_vars

\* foo.png and foo_1.png exist and the name generated for foo is foo_2.png
C3_Witness ==
    /\ ~env.isDir /\ ipc[1] # "idle"
    /\ {"out/a.png", "out/a_1.png"} \subseteq {p \in DOMAIN outFiles : outFiles[p] = 0}
    /\ outputFile[1] = "out/a_2.png"


\* lines of a log that are about one input
LinesFor(log, ctx, file) == {k \in DOMAIN log : log[k].ctx = ctx /\ log[k].file = file}
FailuresOf(i) == LinesFor(stderr, "Error processing image", inputFile[i])
ConversionsOf(i) == LinesFor(stdout, "Converted", inputFile[i])
\* exactly one outcome: an output file written, or one logged failure
OneOutcome(i) ==
    \/ /\ ipc[i] = "written"
       /\ Cardinality(WrittenBy(i)) = 1
       /\ Cardinality(ConversionsOf(i)) = 1 /\ FailuresOf(i) = {}
    \/ /\ ipc[i] = "failed"
       /\ WrittenBy(i) = {}
       /\ Cardinality(FailuresOf(i)) = 1 /\ ConversionsOf(i) = {}
\* no flag that can fail an item is given
PlainFlags ==
    /\ ~options.compression.given /\ ~options.resize.given /\ ~options.blur.given
    /\ ~options.roiCompression.given /\ format # "svg"
DirectoryDone ==
    /\ pc = "exited" /\ exitCode = 0
    /\ \A i \in 1..Len(env.entries) :
           /\ inputFile[i] = join(inputPath, FileName(env.entries[i]))
           /\ OneOutcome(i)
           /\ env.entries[i].kind # "image" => ipc[i] = "failed"
           /\ (PlainFlags /\ env.entries[i].kind = "image") => ipc[i] = "written"
    /\ Cardinality({p \in DOMAIN outFiles : outFiles[p] # 0})
           = Cardinality({i \in 1..Len(env.entries) : ipc[i] = "written"})

\* C4: a directory run always ends with exit code 0, every entry having exactly
\* one outcome (one output file, or one failure logged with the entry's name); the
\* entries that are not images fail, and with no failing flag the images are
\* written, so N entries of which one is not an image give N-1 output files.
C4_EveryEntryOneOutcome == (pc = "dirloop") ~> DirectoryDone

\* two entries, one of them a text file: one output file and one logged failure
C4_Witness ==
    /\ DirectoryDone /\ Len(env.entries) = 2
    /\ env.entries[1].kind = "text" /\ env.entries[2].kind = "image"
    /\ Cardinality({p \in DOMAIN outFiles : outFiles[p] # 0}) = 1
    /\ Cardinality({k \in DOMAIN stderr : stderr[k].ctx = "Error processing image"}) = 1

SingleRunFailed == ~env.isDir /\ pc = "exited" /\ ipc[1] = "failed"

\* C5 as claimed: a single-file or URL run whose item failed ends with exit code 1.
C5_FailureExitsOne == SingleRunFailed => exitCode = 1

\* C5 amended: a single-file or URL run whose item failed has printed the failure
\* once, with the input's name, has written nothing, and ends with exit code 0;
\* a run that ends with exit code 1 has processed no item.
C5_FailureLoggedExitZero ==
    /\ SingleRunFailed =>
           /\ exitCode = 0
           /\ Cardinality(LinesFor(stderr, "Error processing image", inputPath)) = 1
           /\ \A p \in DOMAIN outFiles : outFiles[p] = 0
           /\ stdout = <<>>
    /\ exitCode = 1 => \A i \in Items : ipc[i] = "idle"

\* a URL whose body is not an image: logged, exit code 0
C5_Witness == SingleRunFailed /\ inputPath = InputUrl /\ env.payload = "text" /\ exitCode = 0

\* the supported formats as the specification lists them
C6_Supported ==
    {"heic", "heif", "avif", "jpeg", "jpg", "png", "raw", "tiff", "tif", "webp",
     "gif", "jp2", "jpx", "j2k", "j2c", "svg"}
C6_ConfigurationError ==
    \/ options.input \in {Absent, ""}
    \/ options.output \in {Absent, ""}
    \/ options.format \in {Absent, ""}
    \/ CanonicalFormat(options.format) \notin C6_Supported
NothingProcessed ==
    /\ \A i \in Items : ipc[i] = "idle" /\ outputFile[i] = "" /\ applied[i] = <<>>
    /\ mkdirs = {} /\ files = <<>> /\ stdout = <<>>
    /\ \A p \in DOMAIN outFiles : outFiles[p] = 0

\* C6: with a required flag missing or a format outside the supported set, the
\* run goes from the option check to exit code 1 with one error line: no item is
\* resolved, no output name generated, no directory made and no file written.
C6_ConfigurationErrorAborts ==
    C6_ConfigurationError =>
        /\ NothingProcessed
        /\ pc \in {"load", "run", "exited"}
        /\ pc = "exited" => (exitCode = 1 /\ Len(stderr) = 1)
        /\ pc # "exited" => ENABLED (Load \/ RunValidate)

\* an unsupported format, all required flags given: exit code 1
C6_Witness ==
    /\ options.format = "bmp" /\ options.input = InputImage /\ options.output # Absent
    /\ pc = "exited" /\ exitCode = 1

NotValidImageMessages == {prefix \o "is not a valid image." :
                              prefix \in {"The fetched file ", "The input file "}}
\* the bytes were obtained and their sniffed type is absent or not image/*
SniffsAsNoImage(i) == ipc[i] # "idle" /\ ItemKind(i) \in {"text", "pdf"}

\* C7: an item whose bytes do not sniff as an image never gets past the sniff: no
\* call is made on the pipeline, no file is written for it, and it fails with a
\* message ending in "is not a valid image."; for local files and URLs alike.
C7_NoImageNoTransform ==
    \A i \in Items :
        SniffsAsNoImage(i) =>
            /\ ipc[i] \in {"start", "sniff", "failed"}
            /\ applied[i] = <<>>
            /\ WrittenBy(i) = {} /\ ConversionsOf(i) = {}
            /\ ipc[i] = "failed" =>
                   \E k \in FailuresOf(i) : stderr[k].msg \in NotValidImageMessages

\* a fetched body that is not an image has been rejected
C7_Witness ==
    \E i \in Items :
        /\ SniffsAsNoImage(i) /\ ipc[i] = "failed" /\ StartsWithHttp(inputFile[i])
        /\ \E k \in FailuresOf(i) : stderr[k].msg = "The fetched file is not a valid image."

Encoded(i) == ipc[i] \in {"writing", "written"}

\* C8: an item is encoded only when compression is absent or an integer in 0..100.
C8_EncodedOnlyInRange ==
    \A i \in Items :
        Encoded(i) =>
            \/ ~options.compression.given
            \/ /\ IsInteger(compression)
               /\ ~Less(compression, 0) /\ ~Greater(compression, 100)

ResizeApplied(i) == \E k \in DOMAIN applied[i] : applied[i][k].op = "resize"
TwoPositiveIntegers(str) ==
    LET parts == Split(str)
    IN  /\ Len(parts) = 2
        /\ \A k \in 1..2 : IsInteger(Number(parts[k])) /\ Greater(Number(parts[k]), 0)

\* C9: the resize step is applied only when the resize string parses as exactly
\* two positive integers separated by x or X.
C9_ResizeOnlyTwoPositiveIntegers ==
    \A i \in Items : ResizeApplied(i) => TwoPositiveIntegers(options.resize.s)

\* C10: a blur value that is present but NaN, zero or negative fails the item
\* before it is encoded (stated for runs without --autoOptimize).
C10_InvalidBlurFails ==
    \A i \in Items :
        (options.blur.given /\ ~options.autoOptimize /\ (isNaN(blur) \/ LessEq(blur, 0)))
            => ipc[i] \notin {"toFile", "writing", "written"}


EncoderOps == {"jpeg", "png", "webp", "avif", "tiff", "heif"}
RoiOps == {"extract", "roi-jpeg", "composite"}
\* the place of a call in the fixed order of steps
StepRank(call) ==
    CASE call.op = "resize" -> 1
      [] call.op \in EncoderOps -> 2
      [] call.op \in RoiOps -> 3
      [] call.op = "flatten" -> 4
      [] call.op = "sharpen" -> 5
      [] call.op = "median" -> 6
      [] call.op = "grayscale" -> 7
      [] call.op = "blur" -> 8
      [] call.op = "toFormat" -> 9
      [] OTHER -> 0
\* the place of a call of the overlay step among the calls of that step
RoiRank(call) ==
    3 * call.region + (CASE call.op = "extract" -> 0 [] call.op = "roi-jpeg" -> 1 [] OTHER -> 2)

\* C11: the calls made on an item's pipeline follow the fixed order resize,
\* encoding parameters, region overlay, flatten, sharpen, denoise, grayscale, blur,
\* final encode: every call is a step of that list, no step is applied twice (the
\* overlay step handles its regions one after the other, each once), and nothing
\* follows the final encode.
C11_FixedStepOrder ==
    \A i \in Items :
        /\ \A k \in DOMAIN applied[i] : StepRank(applied[i][k]) \in 1..9
        /\ \A j, k \in DOMAIN applied[i] :
               j < k =>
                   \/ StepRank(applied[i][j]) < StepRank(applied[i][k])
                   \/ /\ StepRank(applied[i][j]) = 3 /\ StepRank(applied[i][k]) = 3
                      /\ RoiRank(applied[i][j]) < RoiRank(applied[i][k])

\* a written item that went through every step of the list
C11_Witness ==
    \E i \in Items :
        /\ ipc[i] = "written"
        /\ {StepRank(applied[i][k]) : k \in DOMAIN applied[i]} = 1..9


OptimizationOps == {"sharpen", "median", "grayscale", "blur"}
\* the optimization calls made on item i, in order, by name
OptimizationsOf(i) ==
    LET q == SelectSeq(applied[i], LAMBDA c : c.op \in OptimizationOps)
    IN  [k \in 1..Len(q) |-> q[k].op]
\* the optimization steps the flags ask for one by one
RequestedOptimizations ==
    (IF options.sharpen THEN <<"sharpen">> ELSE <<>>) \o
    (IF options.denoise THEN <<"median">> ELSE <<>>) \o
    (IF options.grayscale THEN <<"grayscale">> ELSE <<>>) \o
    (IF options.blur.given THEN <<"blur">> ELSE <<>>)
OptimizationDone(i) == ipc[i] \in {"toFile", "writing", "written"}
BlurAbsentOrPositive == ~options.blur.given \/ (~isNaN(blur) /\ Greater(blur, 0))

RegistryQuality == {"jpeg", "png", "webp", "tiff", "tif", "heif", "heic", "avif"}
RegistryLossless == {"png", "webp", "avif", "tiff", "tif", "heif", "heic"}
EncodingDone(i) == ipc[i] \in {"roi", "flatten", "optimize", "toFile", "writing", "written"}
CompressionInRange ==
    /\ compression.kind = "num" /\ IsInteger(compression)
    /\ ~Less(compression, 0) /\ ~Greater(compression, 100)
\* the encoder of item i was given the compression value as its quality
QualityApplied(i) ==
    \E k \in DOMAIN applied[i] :
        /\ applied[i][k].op \in EncoderOps
        /\ applied[i][k].mode = "quality" /\ applied[i][k].level = compression
\* the encoder of item i was given lossless parameters
LosslessApplied(i) ==
    \E k \in DOMAIN applied[i] :
        /\ applied[i][k].op \in EncoderOps
        /\ applied[i][k].mode \in {"lossless", "lzw", "compressionLevel"}

\* C13: for an item past the encoding step and a supported format, without
\* --lossless a compression in 0..100 is applied as the encoder quality exactly
\* when the format is in the registry's quality table, and with --lossless the
\* lossless parameters are applied exactly when the format is in the registry's
\* lossless table.
C13_CapabilityTables ==
    \A i \in Items :
        (EncodingDone(i) /\ format \in C6_Supported) =>
            /\ (~options.lossless /\ CompressionInRange) =>
                   (QualityApplied(i) <=> format \in RegistryQuality)
            /\ options.lossless => (LosslessApplied(i) <=> format \in RegistryLossless)


\* a capability is requested that the registry does not list for the format
QualityUnsupported ==
    ~options.lossless /\ options.compression.given /\ format \notin RegistryQuality
LosslessUnsupported == options.lossless /\ format \notin RegistryLossless
CompressionAbsentOrInRange == ~options.compression.given \/ CompressionInRange
CapabilityWarned == \E k \in DOMAIN stderr : stderr[k].ctx = "Warning"
\* nothing else that can fail the item: an image, an encodable format, no other
\* value-carrying flag
NothingElseFails(i) ==
    /\ ItemKind(i) = "image" /\ format \in SharpOutputFormats
    /\ ~options.resize.given /\ ~options.blur.given /\ ~options.roiCompression.given

\* C14: when the format (a supported one) lacks the requested capability, with a
\* compression that is absent or in 0..100, an item past the encoding step has got
\* a warning and not the capability's encoder call, and an item that nothing else
\* can fail does not fail: this with and without a compression value.
C14_UnsupportedCapabilityWarns ==
    \A i \in Items :
        (format \in C6_Supported /\ CompressionAbsentOrInRange) =>
            /\ (QualityUnsupported /\ EncodingDone(i)) =>
                   (CapabilityWarned /\ ~QualityApplied(i))
            /\ (LosslessUnsupported /\ EncodingDone(i)) =>
                   (CapabilityWarned /\ ~LosslessApplied(i))
            /\ (ipc[i] = "failed" /\ (QualityUnsupported \/ LosslessUnsupported)) =>
                   ~NothingElseFails(i)


\* sources of several aspect ratios, in pixels
SourceDimensions == {<<4, 4>>, <<8, 4>>, <<4, 8>>, <<1, 3>>}
ResizeCalls(i) == {k \in DOMAIN applied[i] : applied[i][k].op = "resize"}

\* C15: a resize call carries the fit the --preserve-aspect-ratio flag alone
\* decides: without the flag fill, so the output is exactly W by H for a source of
\* any aspect ratio; with the flag inside, so the output fits in the W by H box
\* and touches it in one dimension.
C15_FitByFlagAlone ==
    \A i \in Items : \A k \in ResizeCalls(i) :
        LET call == applied[i][k]
            W == call.width.m
            H == call.height.m
        IN  /\ call.fit = IF options.preserveAspectRatio THEN "inside" ELSE "fill"
            /\ \A src \in SourceDimensions :
                   LET out == SharpResizedDimensions(call.fit, W, H, src)
                   IN  IF options.preserveAspectRatio
                       THEN out[1] <= W /\ out[2] <= H /\ (out[1] = W \/ out[2] = H)
                       ELSE out = <<W, H>>


\* the files that were in the output directory before the run started
PreExisting == {p \in DOMAIN outFiles : outFiles[p] = 0}

\* C16: no step of a run, single item or directory, writes over or removes a file
\* that was in the output directory before the run started.
C16_PreExistingKept ==
    [][ \A p \in PreExisting : p \in DOMAIN outFiles' /\ outFiles'[p] = 0 ]_vars

\* the item's first name was taken before the run; the item was written elsewhere
C16_Witness ==
    \E i \in Items :
        /\ ipc[i] = "written"
        /\ join(ItemDir, Candidate(ItemBase(i), 0, format)) \in PreExisting
        /\ WrittenBy(i) # {} /\ WrittenBy(i) \cap PreExisting = {}


Resolved(i) == ipc[i] \notin {"idle", "start"}

\* C17: a directory is enumerated and its entries are read as local files, with
\* no request made; an existing local file is read and never fetched; a specifier
\* that is no local path and begins with http:// or https:// is fetched with one
\* GET; any other specifier ends the run with "Input path does not exist." and exit
\* code 1, nothing processed.
C17_SourceResolution ==
    ~C6_ConfigurationError =>
        /\ (env.exists /\ env.isDir) =>
               /\ requests = <<>>
               /\ files \in {<<>>, env.entries}
               /\ \A i \in Items : ipc[i] # "idle" =>
                      inputFile[i] = join(inputPath, FileName(env.entries[i]))
        /\ (env.exists /\ ~env.isDir) => requests = <<>>
        /\ (~env.exists /\ StartsWithHttp(inputPath)) =>
               /\ requests \in {<<>>, <<inputPath>>}
               /\ Resolved(1) => requests = <<inputPath>>
        /\ (~env.exists /\ ~StartsWithHttp(inputPath) /\ pc = "exited") =>
               /\ exitCode = 1 /\ NothingProcessed /\ requests = <<>>
               /\ stderr = <<Line("Error", "", "Input path does not exist.")>>


LosslessPath == options.lossless /\ format \in RegistryLossless

\* C18: for an item past the encoding step of a run with --lossless (supported
\* format, compression absent or in 0..100): on a format that supports lossless
\* the lossless parameters are applied; otherwise a given compression on a format
\* that supports quality is applied as the encoder quality (a level the encoder
\* takes, 1..100), so jpeg with --lossless and a level C gets quality C; and never
\* both a lossless and a quality encoder call.
C18_LosslessOrQuality ==
    \A i \in Items :
        (EncodingDone(i) /\ options.lossless /\ format \in C6_Supported
             /\ CompressionAbsentOrInRange) =>
            /\ LosslessPath => LosslessApplied(i)
            /\ (~LosslessPath /\ options.compression.given /\ format \in RegistryQuality
                    /\ SharpQualityAccepts(compression))
                   => QualityApplied(i)
            /\ ~(LosslessApplied(i) /\ QualityApplied(i))

====
